---- MODULE Spec2Model ----
(***************************************************************************)
(* File Compressor (compressor.py): the selection/configuration surface,   *)
(* the start action, the worker thread's dispatch loop, the output-name    *)
(* computation of the two format handlers and format_file_size.            *)
(*                                                                         *)
(* Strings are sequences of one-character strings, so that basename,       *)
(* suffix, lower, replace, endswith and join are computed character by     *)
(* character as the library routines compute them.                         *)
(***************************************************************************)
EXTENDS Integers, Sequences, FiniteSets, TLC

VARIABLES
    \* FileCompressor fields and widgets
    selected_files,        \* self.selected_files: list of paths
    output_directory,      \* self.output_directory (StringVar); <<>> is ""
    compression_quality,   \* self.compression_quality (IntVar)
    pdf_compression_level, \* self.pdf_compression_level (IntVar)
    compress_button,       \* state of self.compress_button
    status_text,           \* lines of self.status_text
    progress,              \* self.progress: [maximum, value]
    dialog,                \* the modal messagebox on screen, "none" if none
    \* the worker thread running compress_files
    pc,                    \* its position
    total_files, idx, file_path, compressed_count, failed_count,
    \* history of the current run
    last,                  \* what the loop body did with the item it finished last
    \* pure-function harnesses
    size_in, size_out,     \* format_file_size: argument and result
    path_in, dir_in, name_out, \* handlers' output names: input, directory, result
    image_in, image_out,   \* compress_image: argument and result
    \* one call of compress_pdf, statement by statement
    pdf_pc,                \* its position
    reader_pages,          \* reader.pages: the pages of the source document
    page_i,                \* number of pages the for loop has taken
    writer_pages,          \* the pages of the PdfWriter
    writer_calls,          \* the extra steps requested of the PdfWriter, in order
    output_file            \* the documents written to output_path, in order

mainVars == <<selected_files, output_directory, compression_quality,
              pdf_compression_level, compress_button, status_text, progress,
              dialog, pc, total_files, idx, file_path, compressed_count,
              failed_count, last>>
sizeVars == <<size_in, size_out>>
nameVars == <<path_in, dir_in, name_out>>
imageVars == <<image_in, image_out>>
pdfVars == <<pdf_pc, reader_pages, page_i, writer_pages, writer_calls,
             output_file>>
vars == <<mainVars, sizeVars, nameVars, imageVars, pdfVars>>

-----------------------------------------------------------------------------
(* Bounds *)

\* the longest list of selected files explored
MaxFiles == 2

\* the largest number of pages of a source document explored
MaxPages == 3

-----------------------------------------------------------------------------
(* Strings *)

UpperAlpha == <<"A","B","C","D","E","F","G","H","I","J","K","L","M",
                "N","O","P","Q","R","S","T","U","V","W","X","Y","Z">>
LowerAlpha == <<"a","b","c","d","e","f","g","h","i","j","k","l","m",
                "n","o","p","q","r","s","t","u","v","w","x","y","z">>

LowerChar(c) ==
    IF \E k \in DOMAIN UpperAlpha : UpperAlpha[k] = c
    THEN LowerAlpha[CHOOSE k \in DOMAIN UpperAlpha : UpperAlpha[k] = c]
    ELSE c

\* The string operators bind each argument once (v \in {s}), so that an
\* argument is evaluated once however often the body reads it.

\* str.lower()
Lower(s) ==
    CHOOSE r \in {[k \in DOMAIN v |-> LowerChar(v[k])] : v \in {s}} : TRUE

\* str.rfind(c), 1-based; 0 when c does not occur
RFind(s, c) ==
    CHOOSE r \in
      { IF \E k \in DOMAIN v : v[k] = c
        THEN CHOOSE k \in DOMAIN v :
                 v[k] = c /\ \A j \in DOMAIN v : v[j] = c => j <= k
        ELSE 0 : v \in {s} } : TRUE

\* str.startswith / str.endswith
StartsWith(s, pre) ==
    \E v \in {s} : Len(pre) <= Len(v) /\ SubSeq(v, 1, Len(pre)) = pre
EndsWith(s, suf) ==
    \E v \in {s} :
        Len(suf) <= Len(v) /\ SubSeq(v, Len(v) - Len(suf) + 1, Len(v)) = suf

\* str.replace(old, new): every non-overlapping occurrence, left to right
RECURSIVE ReplaceFrom(_, _, _)
ReplaceFrom(s, old, new) ==
    IF Len(s) < Len(old) THEN s
    ELSE IF SubSeq(s, 1, Len(old)) = old
         THEN new \o ReplaceFrom(SubSeq(s, Len(old) + 1, Len(s)), old, new)
         ELSE <<Head(s)>> \o ReplaceFrom(Tail(s), old, new)
Replace(s, old, new) ==
    CHOOSE r \in {ReplaceFrom(v, old, new) : v \in {s}} : TRUE

\* os.path.basename (posix): what follows the last "/"
Basename(p) ==
    CHOOSE r \in {SubSeq(v, RFind(v, "/") + 1, Len(v)) : v \in {p}} : TRUE

\* pathlib.Path(p).suffix: the last "." of the name and what follows it,
\* unless that "." is the first or the last character of the name
Suffix(p) ==
    CHOOSE r \in
      { IF 1 < i /\ i < Len(name) THEN SubSeq(name, i, Len(name)) ELSE <<>> :
        name \in {Basename(p)}, i \in {RFind(Basename(p), ".")} } : TRUE

\* os.path.join(a, b) (posix)
Join(a, b) ==
    CHOOSE r \in
      { IF StartsWith(y, <<"/">>) THEN y
        ELSE IF x = <<>> \/ EndsWith(x, <<"/">>) THEN x \o y
        ELSE x \o <<"/">> \o y : x \in {a}, y \in {b} } : TRUE

Ext_pdf  == <<".","p","d","f">>
Ext_jpg  == <<".","j","p","g">>
Ext_jpeg == <<".","j","p","e","g">>
Ext_png  == <<".","p","n","g">>
Ext_heic == <<".","h","e","i","c">>
Ext_heif == <<".","h","e","i","f">>
Ext_bmp  == <<".","b","m","p">>
Ext_tiff == <<".","t","i","f","f">>
Ext_webp == <<".","w","e","b","p">>

\* the list of line 203
ImageExts == {Ext_jpg, Ext_jpeg, Ext_png, Ext_heic, Ext_heif, Ext_bmp,
              Ext_tiff, Ext_webp}

\* "compressed_"
Prefix == <<"c","o","m","p","r","e","s","s","e","d","_">>

-----------------------------------------------------------------------------
(* Output names of the handlers and routing of the dispatch loop *)

\* (mutation) os.path.basename is forgotten
PdfOutputPath_NoBasename(dir, input_path) ==
    Join(dir, Prefix \o input_path)

\* compress_pdf: output_path
PdfOutputPath(dir, input_path) ==
    Join(dir, Prefix \o Basename(input_path))

\* compress_image: output_filename
ImageOutputFilename(input_path) ==
    CHOOSE r \in
      { IF Lower(Suffix(input_path)) \in {Ext_heic, Ext_heif}
        THEN Replace(Replace(output_filename, Ext_heic, Ext_jpg), Ext_heif, Ext_jpg)
        ELSE output_filename :
        output_filename \in {Prefix \o Basename(input_path)} } : TRUE

\* compress_image: output_path
ImageOutputPath(dir, input_path) ==
    Join(dir, ImageOutputFilename(input_path))

\* (mutation) the output filename is tested without .lower()
ImageCodec_CaseSensitive(output_filename) ==
    IF EndsWith(output_filename, Ext_png) THEN "PNG" ELSE "JPEG"

\* compress_image: the codec of img.save
ImageCodec(output_filename) ==
    IF EndsWith(Lower(output_filename), Ext_png) THEN "PNG" ELSE "JPEG"

\* (mutation) the extension is compared without .lower()
Classify_CaseSensitive(path) ==
    CHOOSE r \in
      { IF file_ext = Ext_pdf THEN "pdf"
        ELSE IF file_ext \in ImageExts THEN "image"
        ELSE "unsupported" : file_ext \in {Suffix(path)} } : TRUE

\* compress_files: the if / elif / else on file_ext
Classify(path) ==
    CHOOSE r \in
      { IF file_ext = Ext_pdf THEN "pdf"
        ELSE IF file_ext \in ImageExts THEN "image"
        ELSE "unsupported" : file_ext \in {Lower(Suffix(path))} } : TRUE

-----------------------------------------------------------------------------
(* format_file_size.  A size is the sequence of its base-1024 digits, most *)
(* significant first, <<>> for 0; all sizes considered are below 2^53, so  *)
(* every division by 1024.0 is exact and the .1f conversion rounds the     *)
(* exact quotient to the nearest tenth, a tie going to the even tenth.     *)

\* 1024.0
Kilo == 1024

\* size_names
size_names == <<"B", "KB", "MB", "GB">>

\* the value of a digit sequence
RECURSIVE DigitsValue(_)
DigitsValue(ds) ==
    IF ds = <<>> THEN 0
    ELSE DigitsValue(SubSeq(ds, 1, Len(ds) - 1)) * Kilo + ds[Len(ds)]

\* m times the fraction 0.f1 f2 ... (base 1024): its integer part and the
\* digits of its fractional part
RECURSIVE MulFrac(_, _)
MulFrac(fs, m) ==
    IF fs = <<>> THEN [carry |-> 0, frac |-> <<>>]
    ELSE LET rest == MulFrac(Tail(fs), m)
             x == Head(fs) * m + rest.carry
         IN  [carry |-> x \div Kilo, frac |-> <<x % Kilo>> \o rest.frac]

AllZero(fs) == \A k \in DOMAIN fs : fs[k] = 0

\* (mutation) the loop tests size_bytes > 1024
SizeAtLeastKilo_Strict(v) ==
    Len(v.whole) >= 2 /\ ~(v.whole = <<1, 0>> /\ AllZero(v.frac))

\* size_bytes >= 1024
SizeAtLeastKilo(v) == Len(v.whole) >= 2

\* the while loop: size_bytes /= 1024.0; i += 1
RECURSIVE SizeLoop(_, _)
SizeLoop(v, i) ==
    IF SizeAtLeastKilo(v) /\ i < Len(size_names) - 1
    THEN SizeLoop([whole |-> SubSeq(v.whole, 1, Len(v.whole) - 1),
                   frac  |-> <<v.whole[Len(v.whole)]>> \o v.frac], i + 1)
    ELSE [v |-> v, i |-> i]

\* f"{size_bytes:.1f}": the integer part and the one decimal
OneDecimal(v) ==
    LET m == MulFrac(v.frac, 10)
        half == Kilo \div 2
        up == IF m.frac = <<>> THEN FALSE
              ELSE \/ Head(m.frac) > half
                   \/ /\ Head(m.frac) = half
                      /\ \/ ~AllZero(Tail(m.frac))
                         \/ m.carry % 2 = 1
        tenths == m.carry + (IF up THEN 1 ELSE 0)
    IN  IF tenths = 10 THEN <<DigitsValue(v.whole) + 1, 0>>
        ELSE <<DigitsValue(v.whole), tenths>>

\* format_file_size(size_bytes): <<0, "B">> is "0 B", <<w, t, u>> is "w.t u"
format_file_size(size_bytes) ==
    IF size_bytes = <<>> THEN <<0, "B">>
    ELSE LET r == SizeLoop([whole |-> size_bytes, frac |-> <<>>], 0)
         IN  OneDecimal(r.v) \o <<size_names[r.i + 1]>>

\* the digits the sizes are made of: 51/1024 < 0.05 < 52/1024, 256/1024 and
\* 768/1024 are the ties 0.25 and 0.75, 1023 is the largest digit
SizeDigits == {0, 1, 51, 52, 256, 768, Kilo - 1}

\* sizes of up to one digit more than there are units: up to 1024^5 - 1
SizeInputs ==
    {ds \in UNION {[1..k -> SizeDigits] : k \in 0..(Len(size_names) + 1)} :
        ds = <<>> \/ ds[1] # 0}

-----------------------------------------------------------------------------
(* The files, directories and settings the dialogs and controls can deliver *)

File_jpg  == <<"/","i","/","a",".","j","p","g">>
File_PDF  == <<"/","i","/","b",".","P","D","F">>
File_txt  == <<"/","i","/","c",".","t","x","t">>
Files == {File_jpg, File_PDF, File_txt}

Dir_o == <<"/","o">>
Dirs == {Dir_o}

\* IntVar(value=80); Scale(from_=10, to=100)
QualityDefault == 80
QualityFrom == 10
Qualities == {QualityFrom, QualityDefault}

\* IntVar(value=1); the three Radiobuttons
PdfLight == 1
PdfMedium == 2
PdfHeavy == 3
PdfLevels == {PdfLight, PdfMedium, PdfHeavy}

\* a ttk.Progressbar's maximum before it is configured
ProgressDefaultMaximum == 100

\* non-empty lists over S of at most n elements
ListsUpTo(S, n) == UNION {[1..k -> S] : k \in 1..n}

\* what a handler call meets in the file system and the libraries:
\*   "ok"     every step of the handler works
\*   "error"  a step of the handler raises; the handler's except clause
\*            catches it and the output is not completed
\*   "raise"  an exception leaves the handler call
Envs == {"ok", "error", "raise"}

-----------------------------------------------------------------------------
(* The handlers: what one call returns, writes and logs *)

\* compress_pdf(input_path)
compress_pdf(input_path, env) ==
    LET output_path == PdfOutputPath(output_directory, input_path)
    IN  [ret   |-> (env = "ok"),
         wrote |-> IF env = "ok"
                   THEN <<[path |-> output_path, codec |-> "PDF",
                           param |-> pdf_compression_level]>>
                   ELSE <<>>,
         log   |-> IF env = "ok" THEN << <<"Size reduction">> >> ELSE <<>>]

\* compress_image(input_path)
compress_image(input_path, env) ==
    LET output_filename == ImageOutputFilename(input_path)
        output_path == ImageOutputPath(output_directory, input_path)
        codec == ImageCodec(output_filename)
    IN  [ret   |-> (env = "ok"),
         wrote |-> IF env = "ok"
                   THEN <<[path |-> output_path, codec |-> codec,
                           param |-> IF codec = "JPEG" THEN compression_quality
                                     ELSE 0,
                           optimize |-> TRUE]>>
                   ELSE <<>>,
         log   |-> IF env = "ok" THEN << <<"Size reduction">> >> ELSE <<>>]

-----------------------------------------------------------------------------
(* State after construction *)

\* no item handled yet
NoItem == [file |-> <<>>, handler |-> "none", result |-> "none", wrote |-> <<>>]

MainInit ==
    /\ selected_files = <<>>
    /\ output_directory = <<>>
    /\ compression_quality = QualityDefault
    /\ pdf_compression_level = PdfLight
    /\ compress_button = "normal"
    /\ status_text = <<>>
    /\ progress = [maximum |-> ProgressDefaultMaximum, value |-> 0]
    /\ dialog = "none"
    /\ pc = "idle"
    /\ total_files = 0
    /\ idx = 0
    /\ file_path = <<>>
    /\ compressed_count = 0
    /\ failed_count = 0
    /\ last = NoItem

SizeIdle == size_in = <<>> /\ size_out = <<>>
NameIdle == path_in = <<>> /\ dir_in = <<>> /\ name_out = <<>>
ImageIdle == image_in = <<>> /\ image_out = <<>>
PdfIdle ==
    /\ pdf_pc = "idle"
    /\ reader_pages = <<>>
    /\ page_i = 0
    /\ writer_pages = <<>>
    /\ writer_calls = <<>>
    /\ output_file = <<>>

Init == MainInit /\ SizeIdle /\ NameIdle /\ ImageIdle /\ PdfIdle

-----------------------------------------------------------------------------
(* The interactive surface (main thread). A messagebox is modal: while one *)
(* is on screen no other control reacts.                                   *)

\* select_files: the dialog returns one or more paths; the paths explored
\* are distinct and not yet in the list
select_files ==
    /\ dialog = "none"
    /\ \E files \in ListsUpTo(Files, MaxFiles) :
          /\ Len(selected_files) + Len(files) <= MaxFiles
          /\ \A j, k \in DOMAIN files : files[j] = files[k] => j = k
          /\ \A j \in DOMAIN files, k \in DOMAIN selected_files :
                 files[j] # selected_files[k]
          /\ selected_files' = selected_files \o files
    /\ UNCHANGED <<output_directory, compression_quality, pdf_compression_level,
                   compress_button, status_text, progress, dialog, pc,
                   total_files, idx, file_path, compressed_count, failed_count,
                   last>>

\* clear_files
clear_files ==
    /\ dialog = "none"
    /\ selected_files' = <<>>
    /\ UNCHANGED <<output_directory, compression_quality, pdf_compression_level,
                   compress_button, status_text, progress, dialog, pc,
                   total_files, idx, file_path, compressed_count, failed_count,
                   last>>

\* select_output_directory: the dialog returns a directory
select_output_directory ==
    /\ dialog = "none"
    /\ \E directory \in Dirs : output_directory' = directory
    /\ UNCHANGED <<selected_files, compression_quality, pdf_compression_level,
                   compress_button, status_text, progress, dialog, pc,
                   total_files, idx, file_path, compressed_count, failed_count,
                   last>>

\* the quality Scale is moved
set_quality ==
    /\ dialog = "none"
    /\ \E q \in Qualities : compression_quality' = q
    /\ UNCHANGED <<selected_files, output_directory, pdf_compression_level,
                   compress_button, status_text, progress, dialog, pc,
                   total_files, idx, file_path, compressed_count, failed_count,
                   last>>

\* one of the PDF Radiobuttons is chosen
set_pdf_level ==
    /\ dialog = "none"
    /\ \E l \in PdfLevels : pdf_compression_level' = l
    /\ UNCHANGED <<selected_files, output_directory, compression_quality,
                   compress_button, status_text, progress, dialog, pc,
                   total_files, idx, file_path, compressed_count, failed_count,
                   last>>

\* (mutation) the status text is cleared before the two checks
start_compression_ClearsFirst ==
    /\ dialog = "none"
    /\ compress_button = "normal"
    /\ status_text' = <<>>
    /\ IF selected_files = <<>>
       THEN /\ dialog' = "No Files"
            /\ UNCHANGED <<compress_button, pc, last>>
       ELSE IF output_directory = <<>>
       THEN /\ dialog' = "No Output Directory"
            /\ UNCHANGED <<compress_button, pc, last>>
       ELSE /\ compress_button' = "disabled"
            /\ pc' = "begin"
            /\ last' = NoItem
            /\ UNCHANGED dialog
    /\ UNCHANGED <<selected_files, output_directory, compression_quality,
                   pdf_compression_level, progress, total_files, idx, file_path,
                   compressed_count, failed_count>>

\* (mutation) the accepted start leaves the button enabled
start_compression_KeepsEnabled ==
    /\ dialog = "none"
    /\ compress_button = "normal"
    /\ IF selected_files = <<>>
       THEN /\ dialog' = "No Files"
            /\ UNCHANGED <<status_text, pc, last>>
       ELSE IF output_directory = <<>>
       THEN /\ dialog' = "No Output Directory"
            /\ UNCHANGED <<status_text, pc, last>>
       ELSE /\ status_text' = <<>>
            /\ pc' = "begin"
            /\ last' = NoItem
            /\ UNCHANGED dialog
    /\ UNCHANGED <<selected_files, output_directory, compression_quality,
                   pdf_compression_level, compress_button, progress,
                   total_files, idx, file_path, compressed_count, failed_count>>

\* start_compression: the "Compress Files" button, which reacts only while
\* its state is 'normal'
start_compression ==
    /\ dialog = "none"
    /\ compress_button = "normal"
    /\ IF selected_files = <<>>
       THEN /\ dialog' = "No Files"
            /\ UNCHANGED <<compress_button, status_text, pc, last>>
       ELSE IF output_directory = <<>>
       THEN /\ dialog' = "No Output Directory"
            /\ UNCHANGED <<compress_button, status_text, pc, last>>
       ELSE /\ compress_button' = "disabled"
            /\ status_text' = <<>>
            /\ pc' = "begin"
            /\ last' = NoItem
            /\ UNCHANGED dialog
    /\ UNCHANGED <<selected_files, output_directory, compression_quality,
                   pdf_compression_level, progress, total_files, idx, file_path,
                   compressed_count, failed_count>>

\* the user closes the messagebox
dismiss ==
    /\ dialog # "none"
    /\ dialog' = "none"
    /\ UNCHANGED <<selected_files, output_directory, compression_quality,
                   pdf_compression_level, compress_button, status_text, progress,
                   pc, total_files, idx, file_path, compressed_count,
                   failed_count, last>>

-----------------------------------------------------------------------------
(* The worker thread: compress_files *)

\* lines 184-191: before the loop
compress_files_begin ==
    /\ pc = "begin"
    /\ total_files' = Len(selected_files)
    /\ progress' = [maximum |-> Len(selected_files), value |-> 0]
    /\ status_text' = Append(status_text, <<"Starting", Len(selected_files)>>)
    /\ compressed_count' = 0
    /\ failed_count' = 0
    /\ idx' = 0
    /\ pc' = "loop"
    /\ UNCHANGED <<selected_files, output_directory, compression_quality,
                   pdf_compression_level, compress_button, dialog, file_path,
                   last>>

\* line 193: the for statement takes the next element of self.selected_files,
\* or leaves the loop when the list has no element at the iterator's position
compress_files_next ==
    /\ pc = "loop"
    /\ IF idx < Len(selected_files)
       THEN /\ file_path' = selected_files[idx + 1]
            /\ idx' = idx + 1
            /\ pc' = "body"
       ELSE /\ pc' = "complete"
            /\ UNCHANGED <<file_path, idx>>
    /\ UNCHANGED <<selected_files, output_directory, compression_quality,
                   pdf_compression_level, compress_button, status_text, progress,
                   dialog, total_files, compressed_count, failed_count,
                   last>>

\* (mutation) the unsupported branch forgets failed_count += 1
compress_files_unsupported_Uncounted ==
    /\ pc = "body"
    /\ Classify(file_path) = "unsupported"
    /\ status_text' = status_text \o
                      << <<"Processing", Basename(file_path)>>,
                         <<"Unsupported", Lower(Suffix(file_path))>> >>
    /\ last' = [file |-> file_path, handler |-> "none", result |-> "none",
                wrote |-> <<>>]
    /\ pc' = "loop"
    /\ UNCHANGED <<selected_files, output_directory, compression_quality,
                   pdf_compression_level, compress_button, progress, dialog,
                   total_files, idx, file_path, compressed_count, failed_count>>

\* lines 194-223 for an item whose extension is neither .pdf nor an image's:
\* the continue statement skips the progress update of line 222
compress_files_unsupported ==
    /\ pc = "body"
    /\ Classify(file_path) = "unsupported"
    /\ status_text' = status_text \o
                      << <<"Processing", Basename(file_path)>>,
                         <<"Unsupported", Lower(Suffix(file_path))>> >>
    /\ failed_count' = failed_count + 1
    /\ last' = [file |-> file_path, handler |-> "none", result |-> "none",
                wrote |-> <<>>]
    /\ pc' = "loop"
    /\ UNCHANGED <<selected_files, output_directory, compression_quality,
                   pdf_compression_level, compress_button, progress, dialog,
                   total_files, idx, file_path, compressed_count>>

\* lines 194-223 for a .pdf or image item whose handler returns
compress_files_handled ==
    /\ pc = "body"
    /\ Classify(file_path) # "unsupported"
    /\ \E env \in Envs \ {"raise"}, kind \in {Classify(file_path)} :
          \E r \in {IF kind = "pdf" THEN compress_pdf(file_path, env)
                    ELSE compress_image(file_path, env)} :
              /\ status_text' = status_text \o
                                << <<"Processing", Basename(file_path)>> >> \o
                                r.log \o
                                << IF r.ret THEN <<"ok">> ELSE <<"failed">> >>
              /\ compressed_count' = IF r.ret THEN compressed_count + 1
                                     ELSE compressed_count
              /\ failed_count' = IF r.ret THEN failed_count
                                 ELSE failed_count + 1
              /\ last' = [file |-> file_path, handler |-> kind,
                          result |-> IF r.ret THEN "true" ELSE "false",
                          wrote |-> r.wrote]
    /\ progress' = [progress EXCEPT !.value = idx]
    /\ pc' = "loop"
    /\ UNCHANGED <<selected_files, output_directory, compression_quality,
                   pdf_compression_level, compress_button, dialog, total_files,
                   idx, file_path>>

\* lines 194-223 for a .pdf or image item when an exception leaves the
\* handler call: the except clause of line 217
compress_files_raised ==
    /\ pc = "body"
    /\ Classify(file_path) # "unsupported"
    /\ status_text' = status_text \o
                      << <<"Processing", Basename(file_path)>>, <<"Error">> >>
    /\ failed_count' = failed_count + 1
    /\ last' = [file |-> file_path, handler |-> Classify(file_path),
                result |-> "raised", wrote |-> <<>>]
    /\ progress' = [progress EXCEPT !.value = idx]
    /\ pc' = "loop"
    /\ UNCHANGED <<selected_files, output_directory, compression_quality,
                   pdf_compression_level, compress_button, dialog, total_files,
                   idx, file_path, compressed_count>>

\* (mutation) the completion step forgets to re-enable the button
compress_files_complete_StaysDisabled ==
    /\ pc = "complete"
    /\ status_text' = status_text \o
                      << <<"Completed">>, <<"Succeeded", compressed_count>>,
                         <<"Failed", failed_count>> >>
    /\ dialog' = IF compressed_count > 0 THEN "Compression Complete" ELSE dialog
    /\ pc' = "idle"
    /\ total_files' = 0
    /\ idx' = 0
    /\ file_path' = <<>>
    /\ compressed_count' = 0
    /\ failed_count' = 0
    /\ last' = NoItem
    /\ UNCHANGED <<selected_files, output_directory, compression_quality,
                   pdf_compression_level, progress, compress_button>>

\* lines 225-236: the tally, the button, the messagebox; the thread ends
compress_files_complete ==
    /\ pc = "complete"
    /\ status_text' = status_text \o
                      << <<"Completed">>, <<"Succeeded", compressed_count>>,
                         <<"Failed", failed_count>> >>
    /\ compress_button' = "normal"
    /\ dialog' = IF compressed_count > 0 THEN "Compression Complete" ELSE dialog
    /\ pc' = "idle"
    /\ total_files' = 0
    /\ idx' = 0
    /\ file_path' = <<>>
    /\ compressed_count' = 0
    /\ failed_count' = 0
    /\ last' = NoItem
    /\ UNCHANGED <<selected_files, output_directory, compression_quality,
                   pdf_compression_level, progress>>

Worker ==
    \/ compress_files_begin
    \/ compress_files_next
    \/ compress_files_unsupported
    \/ compress_files_handled
    \/ compress_files_raised
    \/ compress_files_complete

Next ==
    \/ (select_files /\ UNCHANGED <<sizeVars, nameVars, imageVars, pdfVars>>)
    \/ (clear_files /\ UNCHANGED <<sizeVars, nameVars, imageVars, pdfVars>>)
    \/ (select_output_directory /\ UNCHANGED <<sizeVars, nameVars, imageVars, pdfVars>>)
    \/ (set_quality /\ UNCHANGED <<sizeVars, nameVars, imageVars, pdfVars>>)
    \/ (set_pdf_level /\ UNCHANGED <<sizeVars, nameVars, imageVars, pdfVars>>)
    \/ (start_compression /\ UNCHANGED <<sizeVars, nameVars, imageVars, pdfVars>>)
    \/ (dismiss /\ UNCHANGED <<sizeVars, nameVars, imageVars, pdfVars>>)
    \/ (compress_files_begin /\ UNCHANGED <<sizeVars, nameVars, imageVars, pdfVars>>)
    \/ (compress_files_next /\ UNCHANGED <<sizeVars, nameVars, imageVars, pdfVars>>)
    \/ (compress_files_unsupported /\ UNCHANGED <<sizeVars, nameVars, imageVars, pdfVars>>)
    \/ (compress_files_handled /\ UNCHANGED <<sizeVars, nameVars, imageVars, pdfVars>>)
    \/ (compress_files_raised /\ UNCHANGED <<sizeVars, nameVars, imageVars, pdfVars>>)
    \/ (compress_files_complete /\ UNCHANGED <<sizeVars, nameVars, imageVars, pdfVars>>)

Spec == Init /\ [][Next]_vars

\* the worker thread is scheduled: a handler call returns, a step is taken
LiveSpec == Spec /\ WF_vars(Worker /\ UNCHANGED <<sizeVars, nameVars, imageVars, pdfVars>>)

-----------------------------------------------------------------------------
(* Harness of format_file_size *)

SizeInit ==
    /\ MainInit /\ NameIdle /\ ImageIdle /\ PdfIdle
    /\ size_in \in SizeInputs
    /\ size_out = <<>>

format_file_size_call ==
    /\ size_out = <<>>
    /\ size_out' = format_file_size(size_in)
    /\ UNCHANGED <<size_in, mainVars, nameVars, imageVars, pdfVars>>

SizeSpec == SizeInit /\ [][format_file_size_call]_vars

-----------------------------------------------------------------------------
(* Harness of the routing and of the handlers' output names.  An input is  *)
(* given by its parts: the directory prefix, the stem and the extension.   *)

Stems == { <<"a">>, <<"a",".","h","e","i","c">>, <<"b",".","c">> }

NameExts == { <<>>, <<".","t","x","t">>,
              Ext_pdf, <<".","P","D","F">>, <<".","P","d","f">>,
              Ext_jpg, <<".","J","P","G">>, Ext_jpeg, Ext_png,
              <<".","P","N","G">>, Ext_bmp, Ext_tiff, Ext_webp,
              Ext_heic, <<".","H","E","I","C">>, Ext_heif,
              <<".","H","e","i","f">> }

InDirs == { <<>>, <<"/","i","/">>, <<"/","x",".","d","/">> }

OutDirs == { <<"/","o">>, <<"/">>, <<"/","o","/","p",".","d">> }

NameInputs ==
    {c \in [dir : InDirs, stem : Stems, ext : NameExts] :
        c.ext = <<>> => c.stem = <<"a">>}

PathOf(c) == c.dir \o c.stem \o c.ext

NameInit ==
    /\ MainInit /\ SizeIdle /\ ImageIdle /\ PdfIdle
    /\ path_in \in NameInputs
    /\ dir_in \in OutDirs
    /\ name_out = <<>>

\* one pass of the loop body's routing: the handler chosen for the path and
\* the output path that handler computes
dispatch_name ==
    /\ name_out = <<>>
    /\ LET kind == Classify(PathOf(path_in))
       IN  name_out' =
             [kind |-> kind,
              out  |-> IF kind = "pdf" THEN PdfOutputPath(dir_in, PathOf(path_in))
                       ELSE IF kind = "image"
                            THEN ImageOutputPath(dir_in, PathOf(path_in))
                       ELSE <<>>]
    /\ UNCHANGED <<path_in, dir_in, mainVars, sizeVars, imageVars, pdfVars>>

NameSpec == NameInit /\ [][dispatch_name]_vars

-----------------------------------------------------------------------------
(* Harness of compress_image: one call on an image path, with the quality  *)
(* and the output directory set through the interactive surface.           *)

ImageInputs == {PathOf(c) : c \in {d \in NameInputs : Classify(PathOf(d)) = "image"}}

ImageInit ==
    /\ MainInit /\ SizeIdle /\ NameIdle /\ PdfIdle
    /\ image_in \in ImageInputs
    /\ image_out = <<>>

\* the worker calls compress_image(image_in); a run has an output directory
compress_image_call ==
    /\ output_directory # <<>>
    /\ image_out = <<>>
    /\ \E env \in Envs \ {"raise"} :
          image_out' = compress_image(image_in, env)
    /\ UNCHANGED <<image_in, mainVars, sizeVars, nameVars, pdfVars>>

\* the settings are chosen, then the call is made
ImageNext ==
    \/ (/\ image_out = <<>>
        /\ set_quality
        /\ UNCHANGED <<sizeVars, nameVars, imageVars, pdfVars>>)
    \/ (/\ image_out = <<>>
        /\ select_output_directory
        /\ UNCHANGED <<sizeVars, nameVars, imageVars, pdfVars>>)
    \/ compress_image_call

ImageSpec == ImageInit /\ [][ImageNext]_vars

-----------------------------------------------------------------------------
(* Harness of compress_pdf: one call, statement by statement, on a source  *)
(* document given by its pages.  The call runs in the worker thread, so    *)
(* the PDF Radiobuttons of the interactive surface stay live beside it.    *)

Pages == {"p", "q"}

PdfInputs == ListsUpTo(Pages, MaxPages)

PdfInit ==
    /\ MainInit /\ SizeIdle /\ NameIdle /\ ImageIdle
    /\ pdf_pc = "call"
    /\ reader_pages \in PdfInputs
    /\ page_i = 0
    /\ writer_pages = <<>>
    /\ writer_calls = <<>>
    /\ output_file = <<>>

\* lines 246-248: the reader on the input file and an empty writer
pdf_open ==
    /\ pdf_pc = "call"
    /\ writer_pages' = <<>>
    /\ writer_calls' = <<>>
    /\ page_i' = 0
    /\ pdf_pc' = "pages"
    /\ UNCHANGED <<reader_pages, output_file, mainVars, sizeVars, nameVars,
                   imageVars>>

\* lines 251-253: the for statement takes the next page of reader.pages,
\* compresses its content streams and adds it to the writer, or leaves the
\* loop after the last page
pdf_page ==
    /\ pdf_pc = "pages"
    /\ IF page_i < Len(reader_pages)
       THEN /\ writer_pages' = Append(writer_pages,
                                     [page |-> reader_pages[page_i + 1],
                                      compress_content_streams |-> TRUE])
            /\ page_i' = page_i + 1
            /\ UNCHANGED pdf_pc
       ELSE /\ pdf_pc' = "level2"
            /\ UNCHANGED <<writer_pages, page_i>>
    /\ UNCHANGED <<reader_pages, writer_calls, output_file, mainVars, sizeVars,
                   nameVars, imageVars>>

\* lines 256-257: self.pdf_compression_level.get() is read a first time
pdf_identical ==
    /\ pdf_pc = "level2"
    /\ writer_calls' = IF pdf_compression_level >= PdfMedium
                       THEN Append(writer_calls, "compress_identical_objects")
                       ELSE writer_calls
    /\ pdf_pc' = "level3"
    /\ UNCHANGED <<reader_pages, page_i, writer_pages, output_file, mainVars,
                   sizeVars, nameVars, imageVars>>

\* lines 259-260: self.pdf_compression_level.get() is read a second time
pdf_duplicates ==
    /\ pdf_pc = "level3"
    /\ writer_calls' = IF pdf_compression_level >= PdfHeavy
                       THEN Append(writer_calls, "remove_duplicates")
                       ELSE writer_calls
    /\ pdf_pc' = "write"
    /\ UNCHANGED <<reader_pages, page_i, writer_pages, output_file, mainVars,
                   sizeVars, nameVars, imageVars>>

\* lines 263-274: the writer's document is written to output_path, the size
\* reduction is logged and the call returns True
pdf_write ==
    /\ pdf_pc = "write"
    /\ output_file' = Append(output_file,
                             [pages |-> writer_pages, calls |-> writer_calls])
    /\ pdf_pc' = "True"
    /\ UNCHANGED <<reader_pages, page_i, writer_pages, writer_calls, mainVars,
                   sizeVars, nameVars, imageVars>>

\* lines 276-278: a statement of the try block raises (unreadable source,
\* a failing library call, an I/O error); the call returns False
pdf_except ==
    /\ pdf_pc \in {"call", "pages", "level2", "level3", "write"}
    /\ pdf_pc' = "False"
    /\ UNCHANGED <<reader_pages, page_i, writer_pages, writer_calls,
                   output_file, mainVars, sizeVars, nameVars, imageVars>>

PdfNext ==
    \/ pdf_open
    \/ pdf_page
    \/ pdf_identical
    \/ pdf_duplicates
    \/ pdf_write
    \/ pdf_except
    \/ (set_pdf_level /\ UNCHANGED <<sizeVars, nameVars, imageVars, pdfVars>>)

PdfSpec == PdfInit /\ [][PdfNext]_vars

-----------------------------------------------------------------------------
(* Reading the status text *)

\* the file names of the "Processing: <filename>" lines, in order
ProcessedNames(log) ==
    LET lines == SelectSeq(log, LAMBDA l : l[1] = "Processing")
    IN  [k \in DOMAIN lines |-> lines[k][2]]

\* how many lines of the log have their first word in a set
CountLines(log, words) ==
    Len(SelectSeq(log, LAMBDA l : l[1] \in words))

\* the run has logged its tally
TallyLogged ==
    /\ Len(status_text) >= 3
    /\ status_text[Len(status_text)][1] = "Failed"
    /\ status_text[Len(status_text) - 1][1] = "Succeeded"

\* the elements of self.selected_files the for loop has not taken yet
Todo == SubSeq(selected_files, idx + 1, Len(selected_files))

\* the handler each file of Files is expected to go to
ExpectedHandler(f) ==
    CASE f = File_jpg -> "image"
      [] f = File_PDF -> "pdf"
      [] f = File_txt -> "none"

-----------------------------------------------------------------------------
(* Claims *)

\* C1: a run processes every path of the list selected when it starts, exactly
\* once and in list order, and never stops before the last one: from the
\* moment the worker exists, the paths still to be processed change only by
\* the loop taking the first of them as the next item, and the loop ends only
\* when none is left.
C1_EveryPathOnceInOrder ==
    [][ (pc # "idle" /\ pc' # "idle") =>
          IF pc = "loop" /\ pc' = "body"
          THEN Todo # <<>> /\ file_path' = Head(Todo) /\ Todo' = Tail(Todo)
          ELSE /\ Todo' = Todo
               /\ (pc = "loop" /\ pc' = "complete" => Todo = <<>>) ]_vars

C3_RoutingAndUnsupported ==
    /\ [](last # NoItem => last.handler = ExpectedHandler(last.file))
    /\ [][ (pc = "body" /\ pc' = "loop" /\ ExpectedHandler(file_path) = "none") =>
             /\ failed_count' = failed_count + 1
             /\ compressed_count' = compressed_count
             /\ last'.file = file_path
             /\ last'.handler = "none"
             /\ last'.result = "none"
             /\ last'.wrote = <<>> ]_vars

C3_Witness ==
    /\ pc = "loop"
    /\ idx = 2
    /\ last.file = File_txt
    /\ failed_count = 1
    /\ compressed_count = 1
    /\ ProcessedNames(status_text)[1] = Basename(File_PDF)

\* C6: the progress indicator's maximum is the number of items and its value
\* is the number of items processed so far, whatever their outcome, so that
\* at the end of the run the value is the total.
C6_ProgressTracksLoop ==
    pc \in {"loop", "complete"} =>
        /\ progress.maximum = total_files
        /\ progress.value = idx

C8_StartChecks ==
    /\ [][ (dialog = "none" /\ dialog' \in {"No Files", "No Output Directory"}) =>
             /\ (dialog' = "No Files" <=> selected_files = <<>>)
             /\ (dialog' = "No Output Directory" =>
                     selected_files # <<>> /\ output_directory = <<>>)
             /\ pc' = pc /\ pc = "idle"
             /\ compress_button' = "normal"
             /\ UNCHANGED <<selected_files, output_directory, compression_quality,
                            pdf_compression_level, compress_button, status_text,
                            progress, last>> ]_vars
    /\ [][ (pc = "idle" /\ pc' = "begin") =>
             selected_files # <<>> /\ output_directory # <<>> ]_vars
    /\ []( (compress_button = "normal" /\ dialog = "none"
             /\ selected_files # <<>> /\ output_directory # <<>>)
           => ENABLED (start_compression /\ pc' = "begin") )

C8_Witness ==
    /\ dialog = "No Files"
    /\ pc = "idle"
    /\ compress_button = "normal"
    /\ status_text # <<>>
    /\ progress.value > 0
    /\ output_directory # <<>>

\* C9: while a run is in progress the interactive surface changes nothing the
\* worker reads: file list, output directory, image quality and PDF level
\* keep the values they had when the run started.
C9_InputsFrozenDuringRun ==
    [][ pc # "idle" =>
          UNCHANGED <<selected_files, output_directory, compression_quality,
                      pdf_compression_level>> ]_vars

-----------------------------------------------------------------------------
(* Claims about the output names (NameSpec) *)

HeicExts == { Ext_heic, <<".","H","E","I","C">>, Ext_heif, <<".","H","e","i","f">> }
PdfExts == { Ext_pdf, <<".","P","D","F">>, <<".","P","d","f">> }
OtherImageExts == { Ext_jpg, <<".","J","P","G">>, Ext_jpeg, Ext_png,
                    <<".","P","N","G">>, Ext_bmp, Ext_tiff, Ext_webp }

\* the output directory followed by the path separator
DirSlash(d) == IF d[Len(d)] = "/" THEN d ELSE d \o <<"/">>

\* C4: for every input routed to the image handler as HEIC/HEIF (extension
\* .heic or .heif in any letter case) the output file name is "compressed_" +
\* stem + ".jpg".
C4_HeicBecomesJpg ==
    (name_out # <<>> /\ path_in.ext \in HeicExts) =>
        /\ name_out.kind = "image"
        /\ name_out.out = DirSlash(dir_in) \o Prefix \o path_in.stem \o Ext_jpg

\* C5: for every PDF input and every image input whose extension is not
\* HEIC/HEIF the output path is the output directory, the separator,
\* "compressed_" and the input's base name unchanged.
C5_OutputPathConvention ==
    (name_out # <<>> /\ path_in.ext \in PdfExts \cup OtherImageExts) =>
        /\ name_out.kind = (IF path_in.ext \in PdfExts THEN "pdf" ELSE "image")
        /\ name_out.out = DirSlash(dir_in) \o Prefix \o path_in.stem \o path_in.ext

C5_Witness ==
    /\ name_out # <<>>
    /\ path_in = [dir |-> <<"/","x",".","d","/">>, stem |-> <<"a",".","h","e","i","c">>,
                  ext |-> <<".","P","D","F">>]
    /\ dir_in = <<"/","o","/","p",".","d">>
    /\ name_out.kind = "pdf"
    /\ name_out.out = <<"/","o","/","p",".","d","/">> \o Prefix
                      \o <<"a",".","h","e","i","c",".","P","D","F">>

-----------------------------------------------------------------------------
(* Claims about format_file_size (SizeSpec) *)

\* ten times the printed number
PrintedTenths(out) == 10 * out[1] + out[2]

\* the printed number is the quotient size / 1024^i rounded to one decimal
\* (a tie to the even tenth)
RoundsQuotient(size, i, out) ==
    LET whole == DigitsValue(SubSeq(size, 1, Len(size) - i))
        frac == SubSeq(size, Len(size) - i + 1, Len(size))
        r == PrintedTenths(out) - 10 * whole
        m == MulFrac(frac, 20)
        exact == AllZero(m.frac)
    IN  /\ r \in 0..10
        /\ m.carry >= 2 * r - 1
        /\ m.carry < 2 * r + 1 \/ (m.carry = 2 * r + 1 /\ exact)
        /\ (exact /\ m.carry \in {2 * r - 1, 2 * r + 1}) => r % 2 = 0

\* min(3, the largest k with 1024^k <= size)
ExpectedUnit(size) ==
    IF Len(size) - 1 < Len(size_names) - 1 THEN Len(size) - 1
    ELSE Len(size_names) - 1

UnitAndNumber ==
    /\ size_in = <<>> => size_out = <<0, "B">>
    /\ size_in # <<>> =>
          /\ Len(size_out) = 3
          /\ size_out[3] = size_names[ExpectedUnit(size_in) + 1]
          /\ RoundsQuotient(size_in, ExpectedUnit(size_in), size_out)

\* C10 as stated: format_file_size(0) is "0 B"; for n >= 1 the unit is the
\* i-th of B, KB, MB, GB with i = min(3, largest k with 1024^k <= n), the
\* printed number is n / 1024^i to one decimal, and that number is in
\* [1, 1024) for B, KB and MB.
C10_Original ==
    size_out # <<>> =>
        /\ UnitAndNumber
        /\ (size_in # <<>> /\ size_out[3] # "GB") =>
              (10 <= PrintedTenths(size_out) /\ PrintedTenths(size_out) < 10 * Kilo)

\* C10 as amended: the same unit and printed number; for B, KB and MB the
\* printed number is in [1.0, 1024.0], the upper end being printed for the
\* quotients that round up to it.
C10_Amended ==
    size_out # <<>> =>
        /\ UnitAndNumber
        /\ (size_in # <<>> /\ size_out[3] # "GB") =>
              (10 <= PrintedTenths(size_out) /\ PrintedTenths(size_out) <= 10 * Kilo)
        /\ (size_in # <<>> /\ size_out[3] = "GB") => size_out[1] >= 1

C10_Witness ==
    /\ size_in = <<Kilo - 1, Kilo - 1>>
    /\ size_out = <<Kilo, 0, "KB">>

-----------------------------------------------------------------------------
(* C11 *)

\* C11: at most one run is in progress at any time. The start action is
\* disabled exactly while a worker exists (from the accepted start up to the
\* completion step), a worker is started only when none exists, a worker
\* takes an item only after it has finished the previous one, and the
\* completion step leaves the start action enabled for a new run.
C11_OneRunAtATime ==
    /\ []((pc # "idle") <=> (compress_button = "disabled"))
    /\ [][/\ (pc # "begin" /\ pc' = "begin" =>
                 pc = "idle" /\ compress_button = "normal")
          /\ (pc # "body" /\ pc' = "body" =>
                 pc = "loop" /\ last.file = file_path)
          /\ (pc # "idle" /\ pc' = "idle" =>
                 pc = "complete" /\ compress_button' = "normal")]_vars

\* a second run has been accepted after an earlier one completed
C11_Witness ==
    /\ pc = "begin"
    /\ compress_button = "disabled"
    /\ progress.maximum # ProgressDefaultMaximum

-----------------------------------------------------------------------------
(* C12 *)

\* the last four characters of a path, in lower case
Tail4Lower(p) ==
    IF Len(p) < 4 THEN <<>> ELSE Lower(SubSeq(p, Len(p) - 3, Len(p)))

\* C12: the image handler encodes as PNG (optimization on, no quality)
\* exactly when the name it writes to ends in ".png" ignoring case, and
\* otherwise as JPEG at the configured quality (optimization on); a
\* HEIC/HEIF input is never encoded as PNG; a call that returns True has
\* written exactly one file.
C12_CodecFromOutputName ==
    image_out # <<>> =>
        /\ (image_out.ret => Len(image_out.wrote) = 1)
        /\ \A k \in DOMAIN image_out.wrote :
              LET w == image_out.wrote[k]
              IN  /\ w.optimize
                  /\ (w.codec = "PNG") <=> (Tail4Lower(w.path) = Ext_png)
                  /\ w.codec \in {"PNG", "JPEG"}
                  /\ (w.codec = "JPEG" => w.param = compression_quality)
                  /\ (w.codec = "PNG" => w.param = 0)
                  /\ (Lower(Suffix(image_in)) \in {Ext_heic, Ext_heif} =>
                         w.codec = "JPEG")

\* a successful call on an input named ".PNG" in capitals, at a quality
\* other than the default, encoded as PNG
C12_Witness ==
    /\ image_out # <<>>
    /\ image_out.ret
    /\ Suffix(image_in) = <<".", "P", "N", "G">>
    /\ compression_quality # QualityDefault
    /\ image_out.wrote[1].codec = "PNG"

-----------------------------------------------------------------------------
(* C13 *)

\* the pages a call appends for a source document
CompressedPages(src) ==
    [k \in 1..Len(src) |-> [page |-> src[k], compress_content_streams |-> TRUE]]

\* the extra steps of a level
ExtraSteps(level) ==
    (IF level >= 2 THEN <<"compress_identical_objects">> ELSE <<>>) \o
    (IF level >= 3 THEN <<"remove_duplicates">> ELSE <<>>)

\* C13: the PDF handler appends every source page, content-stream
\* compressed, in source order; the extra steps requested are those of one
\* level 1-3 (identical-object compression from level 2, duplicate removal
\* from level 3, so duplicate removal never without identical-object
\* compression); they are requested after all pages are appended, and the
\* output is written once, after them.
C13_PdfStepsByLevel ==
    /\ writer_pages = SubSeq(CompressedPages(reader_pages), 1, Len(writer_pages))
    /\ (writer_calls # <<>> => Len(writer_pages) = Len(reader_pages))
    /\ (output_file # <<>> =>
           /\ Len(output_file) = 1
           /\ output_file[1].calls = writer_calls)
    /\ (pdf_pc = "True" =>
           /\ Len(output_file) = 1
           /\ output_file[1].pages = CompressedPages(reader_pages)
           /\ \E level \in PdfLevels : output_file[1].calls = ExtraSteps(level))

====
